---- MODULE Spec2Model ----
(***************************************************************************)
(* Paper-trading ledger: accounts, cash ledger, equity and option orders,  *)
(* trades and positions (db.py), the option order engine (options.py) and  *)
(* the equity order engine behind the "Submit Equity Order" button.        *)
(*                                                                         *)
(* Units.  Prices are integers in a price tick; every quoted bid, ask and  *)
(* last is an even number of ticks, so (bid + ask) / 2 is exact.  Option   *)
(* quantities are whole contracts.  Equity quantities (REAL in the schema) *)
(* are counted in units of 1e-9 share, so that the tolerance -1e-9 of      *)
(* upsert_position is QtyTol = 1 unit.  avg_price is an exact rational     *)
(* [n, d] in lowest terms.  Timestamps and the free-text ledger note are   *)
(* not modelled.                                                           *)
(***************************************************************************)
EXTENDS Integers, Sequences, FiniteSets, TLC

VARIABLES
    accounts,          \* table accounts: set of [id, name, starting_cash]
    ledger,            \* table ledger: sequence of [account_id, kind, amount]; index = id
    orders,            \* table orders (equity): sequence of rows; index = id
    trades,            \* table trades (equity): sequence of rows; index = id
    positions,         \* table positions (equity): set of [id, account_id, symbol, qty, avg_price]
    option_orders,     \* table option_orders: sequence of rows; index = id
    option_trades,     \* table option_trades: sequence of rows; index = id
    option_positions,  \* table option_positions: set of [id, account_id, key, qty, avg_price]
    last,              \* outcome of the last call: "ok" or the error raised
    returned,          \* ids of option orders whose place_option_order call returned normally
    pc,                \* per thread: position inside place_option_order (concurrent runs)
    loc,               \* per thread: the local variables of place_option_order
    acct,              \* per thread: position, locals and result of get_or_create_default_account
    ncalls,            \* number of direct calls of the db upsert functions so far
    closed,            \* keys whose position row a direct call has deleted (history)
    market,            \* per equity symbol: the price yfinance would return now, or NoData
    cache,             \* per equity symbol: the price held by the lru_cache of data.history
    swept              \* per equity symbol: the quote the last sweep obtained (history)

vars == <<accounts, ledger, orders, trades, positions,
          option_orders, option_trades, option_positions, last, returned, pc, loc, acct, ncalls,
          closed, market, cache, swept>>

eqTables == <<orders, trades, positions>>
optTables == <<option_orders, option_trades, option_positions>>
threadVars == <<pc, loc, acct>>
quoteVars == <<market, cache, swept>>
callVars == <<threadVars, ncalls, closed, quoteVars>>
\* what the equity engine leaves alone besides the tables; the price cache is its caller's
engineVars == <<threadVars, ncalls, closed, market, swept>>

\* Python's None where a price is optional (limit_price, stop_price); no price is negative
None == -1

----------------------------------------------------------------------------
(* Bounds of the model *)

MaxOps == 2          \* order rows (equity plus option) written in one run
MaxConcOps == 3      \* option order rows written in a concurrent run
MaxCalls == 4        \* direct calls of the db upsert functions in one run

(* Program constants *)

Multiplier == 100    \* contract multiplier of an option fill's notional
QtyTol == 1          \* the tolerance 1e-9 of upsert_position, in quantity units

----------------------------------------------------------------------------
(* Input domains *)

StartingCash == {1000}
Sides == {"BUY", "SELL"}
Qtys == {0, 1, 2}
LimitPrices == {None, 0, 3}
Symbols == {"aapl"}
StopPrices == {None, 0, 3}
\* equity quotes: the last price, or NoData when the lookup fails
NoData == -1
EquityQuotes == {2, 4, NoData}
\* the symbols typed into the equity form (already upper-cased by the form)
EquitySymbols == {"AAPL", "MSFT"}
\* an lru_cache slot of data.history that holds nothing
NotCached == -2
\* a symbol the last sweep did not quote
NotQuoted == -2
\* option quotes of the chain row: <<bid, ask, lastPrice>>; NotInChain when the
\* strike has no row
NotInChain == <<-1, -1, -1>>
OptionQuotes == {<<2, 6, 2>>, <<0, 6, 2>>, <<0, 0, 0>>, NotInChain}

Upper(s) == IF s = "aapl" THEN "AAPL" ELSE s

Contract(sym) == [symbol |-> sym, expiry |-> "2025-01-17", right |-> "C", strike |-> 150]
OptKey(c) == [symbol |-> Upper(c.symbol), expiry |-> c.expiry, right |-> c.right, strike |-> c.strike]

----------------------------------------------------------------------------
(* Arithmetic helpers *)

Abs(x) == IF x < 0 THEN -x ELSE x

RECURSIVE GCD(_, _)
GCD(a, b) == IF b = 0 THEN a ELSE GCD(b, a % b)

\* the rational n/d (d # 0) in lowest terms with a positive denominator
Rat(n, d) ==
    LET g == GCD(Abs(n), Abs(d))
        s == IF d < 0 THEN -1 ELSE 1
    IN  [n |-> (s * n) \div g, d |-> (s * d) \div g]

RatOfInt(p) == [n |-> p, d |-> 1]

MaxId(rows) == IF rows = {} THEN 0 ELSE CHOOSE m \in {r.id : r \in rows} : \A r \in rows : r.id <= m

RECURSIVE SumAmounts(_, _)
SumAmounts(led, account_id) ==
    IF led = <<>> THEN 0
    ELSE (IF Head(led).account_id = account_id THEN Head(led).amount ELSE 0)
         + SumAmounts(Tail(led), account_id)

----------------------------------------------------------------------------
(* db.py *)

\* SELECT SUM(amount) FROM ledger WHERE account_id = ?
get_cash_balance(account_id) == SumAmounts(ledger, account_id)

LedgerEntry(account_id, kind, amount) == [account_id |-> account_id, kind |-> kind, amount |-> amount]

DefaultAccountRows == {a \in accounts : a.name = "default"}

get_or_create_default_account(starting_cash) ==
    /\ IF DefaultAccountRows = {}
       THEN /\ accounts' = accounts \cup
                   {[id |-> MaxId(accounts) + 1, name |-> "default", starting_cash |-> starting_cash]}
            /\ ledger' = Append(ledger, LedgerEntry(MaxId(accounts) + 1, "deposit", starting_cash))
       ELSE UNCHANGED <<accounts, ledger>>
    /\ last' = "ok"
    /\ UNCHANGED <<eqTables, optTables, returned, callVars>>

\* get_or_create_default_account as its statements run when calls interleave: the
\* SELECT, then what follows on the row it fetched. A call that raises leaves the
\* tables as they were (nothing of it was committed).
NoReturn == 0
Raised == -1
NoAccountCall == [pc |-> "idle", starting_cash |-> 0, row |-> {}, ret |-> NoReturn]

AccountSelect(t, starting_cash) ==
    /\ acct[t].pc = "idle"
    /\ ncalls < MaxCalls
    /\ ncalls' = ncalls + 1
    /\ acct' = [acct EXCEPT ![t] = [pc |-> "selected", starting_cash |-> starting_cash,
                                    row |-> {a.id : a \in DefaultAccountRows}, ret |-> NoReturn]]
    /\ last' = "select"
    /\ UNCHANGED <<accounts, ledger, eqTables, optTables, returned, pc, loc, closed, quoteVars>>

AccountInsertOrReturn(t) ==
    /\ acct[t].pc = "selected"
    /\ IF acct[t].row # {}
       THEN /\ acct' = [acct EXCEPT ![t].pc = "idle",
                                    ![t].ret = CHOOSE id \in acct[t].row : TRUE]
            /\ last' = "ok"
            /\ UNCHANGED <<accounts, ledger>>
       ELSE IF DefaultAccountRows # {}
       THEN /\ acct' = [acct EXCEPT ![t].pc = "idle", ![t].ret = Raised]
            /\ last' = "IntegrityError"
            /\ UNCHANGED <<accounts, ledger>>
       ELSE /\ accounts' = accounts \cup
                   {[id |-> MaxId(accounts) + 1, name |-> "default",
                     starting_cash |-> acct[t].starting_cash]}
            /\ ledger' = Append(ledger, LedgerEntry(MaxId(accounts) + 1, "deposit",
                                                    acct[t].starting_cash))
            /\ acct' = [acct EXCEPT ![t].pc = "idle", ![t].ret = MaxId(accounts) + 1]
            /\ last' = "ok"
    /\ UNCHANGED <<eqTables, optTables, returned, pc, loc, ncalls, closed, quoteVars>>

\* (mutant) the plain mean of the old average and the fill price
NewAvg_Unweighted(qty, avg_price, qty_delta, price) ==
    Rat(avg_price.n + price * avg_price.d, 2 * avg_price.d)

\* the weighted average (qty * avg_price + qty_delta * price) / (qty + qty_delta)
NewAvg(qty, avg_price, qty_delta, price) ==
    Rat(qty * avg_price.n + qty_delta * price * avg_price.d, avg_price.d * (qty + qty_delta))

\* (mutant) the average is recomputed on every fill, a SELL included
PositionAvg_Reaverage(qty, avg_price, qty_delta, price) ==
    NewAvg(qty, avg_price, qty_delta, price)

\* new_avg: recomputed when qty_delta > 0, else the stored avg_price
PositionAvg(qty, avg_price, qty_delta, price) ==
    IF qty_delta > 0 THEN NewAvg(qty, avg_price, qty_delta, price) ELSE avg_price

\* (mutant) the row is updated to quantity 0 instead of being deleted
UpdateOrDelete_KeepsZeroRow(rows, id, new_qty, new_avg) ==
    {IF r.id = id THEN [r EXCEPT !.qty = new_qty, !.avg_price = new_avg] ELSE r : r \in rows}

\* if new_qty == 0: DELETE ... WHERE id = ?  else: UPDATE ... SET qty, avg_price WHERE id = ?
UpdateOrDelete(rows, id, new_qty, new_avg) ==
    IF new_qty = 0
    THEN {r \in rows : r.id # id}
    ELSE {IF r.id = id THEN [r EXCEPT !.qty = new_qty, !.avg_price = new_avg] ELSE r : r \in rows}

\* SELECT id, qty, avg_price FROM option_positions WHERE account_id = ? AND key = ?
\* (fetchone: the empty set for no row, else the set of the one row the UNIQUE key allows)
\* (mutant) the SELECT forgets the account: WHERE option_key = ?
SelectOptionPosition_AnyAccount(rows, account_id, key) ==
    {r \in rows : r.key = key}

SelectOptionPosition(rows, account_id, key) ==
    {r \in rows : r.account_id = account_id /\ r.key = key}

\* the rest of upsert_option_position, given the row the SELECT returned:
\* [err, rows] with rows the table after the commit (unchanged on an error)
WriteOptionPosition(rows, fetched, account_id, key, qty_delta, price) ==
    IF fetched = {}
    THEN IF qty_delta < 0
         THEN [err |-> "PositionViolation", rows |-> rows]
         ELSE IF \E r \in rows : r.account_id = account_id /\ r.key = key
              THEN [err |-> "IntegrityError", rows |-> rows]
              ELSE [err |-> "ok",
                    rows |-> rows \cup {[id |-> MaxId(rows) + 1, account_id |-> account_id,
                                         key |-> key, qty |-> qty_delta,
                                         avg_price |-> RatOfInt(price)]}]
    ELSE LET row == CHOOSE r \in fetched : TRUE
             new_qty == row.qty + qty_delta
             new_avg == PositionAvg(row.qty, row.avg_price, qty_delta, price)
         IN  IF new_qty < 0
             THEN [err |-> "PositionViolation", rows |-> rows]
             ELSE [err |-> "ok", rows |-> UpdateOrDelete(rows, row.id, new_qty, new_avg)]

upsert_option_position(rows, account_id, key, qty_delta, price) ==
    WriteOptionPosition(rows, SelectOptionPosition(rows, account_id, key),
                        account_id, key, qty_delta, price)

\* SELECT id, qty, avg_price FROM positions WHERE account_id = ? AND symbol = ?
SelectPosition(rows, account_id, symbol) ==
    {r \in rows : r.account_id = account_id /\ r.symbol = symbol}

\* the rest of upsert_position, given the row the SELECT returned
WritePosition(rows, fetched, account_id, symbol, qty_delta, price) ==
    IF fetched = {}
    THEN IF qty_delta < 0
         THEN [err |-> "PositionViolation", rows |-> rows]
         ELSE IF \E r \in rows : r.account_id = account_id /\ r.symbol = symbol
              THEN [err |-> "IntegrityError", rows |-> rows]
              ELSE [err |-> "ok",
                    rows |-> rows \cup {[id |-> MaxId(rows) + 1, account_id |-> account_id,
                                         symbol |-> symbol, qty |-> qty_delta,
                                         avg_price |-> RatOfInt(price)]}]
    ELSE LET row == CHOOSE r \in fetched : TRUE
             new_qty == row.qty + qty_delta
             new_avg == PositionAvg(row.qty, row.avg_price, qty_delta, price)
         IN  IF new_qty < -QtyTol
             THEN [err |-> "PositionViolation", rows |-> rows]
             ELSE IF qty_delta > 0 /\ row.qty + qty_delta = 0
                  THEN [err |-> "ZeroDivisionError", rows |-> rows]
                  ELSE [err |-> "ok", rows |-> UpdateOrDelete(rows, row.id, new_qty, new_avg)]

upsert_position(rows, account_id, symbol, qty_delta, price) ==
    WritePosition(rows, SelectPosition(rows, account_id, symbol),
                  account_id, symbol, qty_delta, price)

----------------------------------------------------------------------------
(* data.py: last_price reads the close of history(symbol, "5d", "1d"), and  *)
(* history is wrapped in lru_cache: the first successful lookup of a symbol *)
(* is kept until cache_clear; a lookup that raises is not kept.             *)

\* (mutant) history is called without its cache
last_price_Uncached(sym) == market[sym]

\* the value last_price returns (NoData: it raises ValueError)
last_price(sym) == IF cache[sym] # NotCached THEN cache[sym] ELSE market[sym]

\* the cache after last_price has been called for every symbol of syms
CacheAfter(syms) ==
    [sym \in EquitySymbols |->
        IF sym \in syms /\ cache[sym] = NotCached /\ market[sym] # NoData
        THEN market[sym] ELSE cache[sym]]

----------------------------------------------------------------------------
(* options.py *)

\* mid = (bid + ask) / 2 if (bid and ask) else (last or 0.0)
RefPrice(q) == IF q[1] # 0 /\ q[2] # 0 THEN (q[1] + q[2]) \div 2 ELSE q[3]

\* the checks of place_option_order that precede its first write
OptionReject(side, order_type, limit_price, q) ==
    IF q = NotInChain THEN "ContractNotFound"
    ELSE IF RefPrice(q) <= 0 THEN "NoQuote"
    ELSE IF order_type = "LIMIT" /\ limit_price # None
            /\ \/ side = "BUY" /\ RefPrice(q) > limit_price
               \/ side = "SELL" /\ RefPrice(q) < limit_price
         THEN "LimitNotMet"
         ELSE "ok"

OptionFillPrice(order_type, limit_price, q) ==
    IF order_type = "LIMIT" /\ limit_price # None THEN limit_price ELSE RefPrice(q)

\* (mutant) a LIMIT order is stored OPEN and unfilled, as an equity order that waits
OptionOrderRow_LimitStoredOpen(account_id, c, side, qty, order_type, limit_price, fill_price) ==
    [account_id |-> account_id, key |-> OptKey(c), side |-> side, qty |-> qty,
     order_type |-> order_type, limit_price |-> limit_price,
     status |-> IF order_type = "LIMIT" THEN "OPEN" ELSE "FILLED",
     filled_qty |-> IF order_type = "LIMIT" THEN 0 ELSE qty,
     avg_fill_price |-> fill_price]

OptionOrderRow(account_id, c, side, qty, order_type, limit_price, fill_price) ==
    [account_id |-> account_id, key |-> OptKey(c), side |-> side, qty |-> qty,
     order_type |-> order_type, limit_price |-> limit_price, status |-> "FILLED",
     filled_qty |-> qty, avg_fill_price |-> fill_price]

\* (mutant) the trade records the notional of the fill instead of the premium
OptionTradeRow_Notional(oid, c, qty, fill_price) ==
    [order_id |-> oid, key |-> OptKey(c), qty |-> qty, price |-> fill_price * Multiplier]

OptionTradeRow(oid, c, qty, fill_price) ==
    [order_id |-> oid, key |-> OptKey(c), qty |-> qty, price |-> fill_price]

OptionLedgerEntry(account_id, side, qty, fill_price) ==
    IF side = "BUY"
    THEN LedgerEntry(account_id, "trade_buy", -(fill_price * qty * Multiplier))
    ELSE LedgerEntry(account_id, "trade_sell", fill_price * qty * Multiplier)

OptionQtyDelta(side, qty) == IF side = "BUY" THEN qty ELSE -qty

\* (mutant) the order row is inserted before the limit is checked
place_option_order_InsertFirst(account_id, c, side, qty, order_type, limit_price, q) ==
    LET rej == OptionReject(side, order_type, limit_price, q)
        fill_price == OptionFillPrice(order_type, limit_price, q)
        oid == Len(option_orders) + 1
        up == upsert_option_position(option_positions, account_id, OptKey(c),
                                     OptionQtyDelta(side, qty), fill_price)
    IN  IF rej \in {"ContractNotFound", "NoQuote"}
        THEN /\ last' = rej
             /\ UNCHANGED <<accounts, ledger, eqTables, optTables, returned, callVars>>
        ELSE /\ Len(orders) + Len(option_orders) < MaxOps
             /\ option_orders' = Append(option_orders,
                    OptionOrderRow(account_id, c, side, qty, order_type, limit_price, fill_price))
             /\ IF rej = "LimitNotMet"
                THEN /\ last' = rej
                     /\ UNCHANGED <<ledger, option_trades, option_positions, returned>>
                ELSE /\ option_trades' = Append(option_trades, OptionTradeRow(oid, c, qty, fill_price))
                     /\ ledger' = Append(ledger, OptionLedgerEntry(account_id, side, qty, fill_price))
                     /\ option_positions' = up.rows
                     /\ last' = up.err
                     /\ returned' = IF up.err = "ok" THEN returned \cup {oid} ELSE returned
             /\ UNCHANGED <<accounts, eqTables, callVars>>

\* (mutant) a BUY whose notional exceeds the cash balance is rejected before any write
place_option_order_ChecksCash(account_id, c, side, qty, order_type, limit_price, q) ==
    LET rej == OptionReject(side, order_type, limit_price, q)
        fill_price == OptionFillPrice(order_type, limit_price, q)
        oid == Len(option_orders) + 1
        up == upsert_option_position(option_positions, account_id, OptKey(c),
                                     OptionQtyDelta(side, qty), fill_price)
    IN  IF rej # "ok"
        THEN /\ last' = rej
             /\ UNCHANGED <<accounts, ledger, eqTables, optTables, returned, callVars>>
        ELSE IF side = "BUY" /\ fill_price * qty * Multiplier > get_cash_balance(account_id)
        THEN /\ last' = "InsufficientFunds"
             /\ UNCHANGED <<accounts, ledger, eqTables, optTables, returned, callVars>>
        ELSE /\ Len(orders) + Len(option_orders) < MaxOps
             /\ option_orders' = Append(option_orders,
                    OptionOrderRow(account_id, c, side, qty, order_type, limit_price, fill_price))
             /\ option_trades' = Append(option_trades, OptionTradeRow(oid, c, qty, fill_price))
             /\ ledger' = Append(ledger, OptionLedgerEntry(account_id, side, qty, fill_price))
             /\ option_positions' = up.rows
             /\ last' = up.err
             /\ returned' = IF up.err = "ok" THEN returned \cup {oid} ELSE returned
             /\ UNCHANGED <<accounts, eqTables, callVars>>

\* one whole call of place_option_order
place_option_order(account_id, c, side, qty, order_type, limit_price, q) ==
    LET rej == OptionReject(side, order_type, limit_price, q)
        fill_price == OptionFillPrice(order_type, limit_price, q)
        oid == Len(option_orders) + 1
        up == upsert_option_position(option_positions, account_id, OptKey(c),
                                     OptionQtyDelta(side, qty), fill_price)
    IN  IF rej # "ok"
        THEN /\ last' = rej
             /\ UNCHANGED <<accounts, ledger, eqTables, optTables, returned, callVars>>
        ELSE /\ Len(orders) + Len(option_orders) < MaxOps
             /\ option_orders' = Append(option_orders,
                    OptionOrderRow(account_id, c, side, qty, order_type, limit_price, fill_price))
             /\ option_trades' = Append(option_trades, OptionTradeRow(oid, c, qty, fill_price))
             /\ ledger' = Append(ledger, OptionLedgerEntry(account_id, side, qty, fill_price))
             /\ option_positions' = up.rows
             /\ last' = up.err
             /\ returned' = IF up.err = "ok" THEN returned \cup {oid} ELSE returned
             /\ UNCHANGED <<accounts, eqTables, callVars>>

----------------------------------------------------------------------------
(* The equity order engine (broker.place_order, called by the eq_submit     *)
(* handler): validation, the fill policy against the quoted price P, and    *)
(* the fill as one unit over order, trade, ledger and position.             *)

EquityValid(qty, order_type, limit_price, stop_price) ==
    /\ qty > 0
    /\ order_type \in {"LIMIT", "STOP_LIMIT"} => (limit_price # None /\ limit_price > 0)
    /\ order_type \in {"STOP", "STOP_LIMIT"} => (stop_price # None /\ stop_price > 0)

\* the checks of the eq_submit handler before it calls broker.place_order
HandlerValid(order_type, limit_price, stop_price) ==
    /\ ~(order_type \in {"LIMIT", "STOP_LIMIT"} /\ (limit_price = None \/ limit_price <= 0))
    /\ ~(order_type \in {"STOP", "STOP_LIMIT"} /\ (stop_price = None \/ stop_price <= 0))

Marketable(side, limit_price, P) == IF side = "BUY" THEN P <= limit_price ELSE P >= limit_price
Triggered(side, stop_price, P) == IF side = "BUY" THEN P >= stop_price ELSE P <= stop_price

\* (mutant) a marketable LIMIT order fills at the quoted price
EquityFillPrice_LimitAtQuote(side, order_type, limit_price, stop_price, P) ==
    CASE order_type = "MARKET" -> P
      [] order_type = "LIMIT" -> IF Marketable(side, limit_price, P) THEN P ELSE None
      [] order_type = "STOP" -> IF Triggered(side, stop_price, P) THEN P ELSE None
      [] order_type = "STOP_LIMIT" ->
            IF Triggered(side, stop_price, P) /\ Marketable(side, limit_price, P)
            THEN limit_price ELSE None

\* (mutant) a triggered STOP order fills at its stop price
EquityFillPrice_StopAtStop(side, order_type, limit_price, stop_price, P) ==
    CASE order_type = "MARKET" -> P
      [] order_type = "LIMIT" -> IF Marketable(side, limit_price, P) THEN limit_price ELSE None
      [] order_type = "STOP" -> IF Triggered(side, stop_price, P) THEN stop_price ELSE None
      [] order_type = "STOP_LIMIT" ->
            IF Triggered(side, stop_price, P) /\ Marketable(side, limit_price, P)
            THEN limit_price ELSE None

\* (mutant) a STOP_LIMIT order is evaluated as a LIMIT order, its stop ignored
EquityFillPrice_StopIgnored(side, order_type, limit_price, stop_price, P) ==
    CASE order_type = "MARKET" -> P
      [] order_type = "LIMIT" -> IF Marketable(side, limit_price, P) THEN limit_price ELSE None
      [] order_type = "STOP" -> IF Triggered(side, stop_price, P) THEN P ELSE None
      [] order_type = "STOP_LIMIT" ->
            IF Marketable(side, limit_price, P) THEN limit_price ELSE None

\* the fill price of an order at the quoted price P, or None when it does not fill
EquityFillPrice(side, order_type, limit_price, stop_price, P) ==
    CASE order_type = "MARKET" -> P
      [] order_type = "LIMIT" -> IF Marketable(side, limit_price, P) THEN limit_price ELSE None
      [] order_type = "STOP" -> IF Triggered(side, stop_price, P) THEN P ELSE None
      [] order_type = "STOP_LIMIT" ->
            IF Triggered(side, stop_price, P) /\ Marketable(side, limit_price, P)
            THEN limit_price ELSE None

EquityOrderRow(account_id, symbol, side, qty, order_type, limit_price, stop_price, fill_price) ==
    [account_id |-> account_id, symbol |-> symbol, side |-> side, qty |-> qty,
     order_type |-> order_type, limit_price |-> limit_price, stop_price |-> stop_price,
     status |-> IF fill_price = None THEN "OPEN" ELSE "FILLED",
     filled_qty |-> IF fill_price = None THEN 0 ELSE qty,
     avg_fill_price |-> fill_price]

EquityTradeRow(oid, symbol, qty, fill_price) ==
    [order_id |-> oid, symbol |-> symbol, qty |-> qty, price |-> fill_price]

EquityLedgerEntry(account_id, side, qty, fill_price) ==
    IF side = "BUY"
    THEN LedgerEntry(account_id, "trade_buy", -(fill_price * qty))
    ELSE LedgerEntry(account_id, "trade_sell", fill_price * qty)

place_order(account_id, symbol, side, qty, order_type, limit_price, stop_price, P) ==
    LET fill_price == EquityFillPrice(side, order_type, limit_price, stop_price, P)
        oid == Len(orders) + 1
        up == upsert_position(positions, account_id, symbol,
                              IF side = "BUY" THEN qty ELSE -qty, fill_price)
        open_row == EquityOrderRow(account_id, symbol, side, qty, order_type,
                                   limit_price, stop_price, None)
    IN  IF ~EquityValid(qty, order_type, limit_price, stop_price)
        THEN /\ last' = "ValidationError"
             /\ UNCHANGED <<accounts, ledger, eqTables, optTables, returned, engineVars>>
        ELSE IF P = NoData
        THEN /\ last' = "QuoteUnavailable"
             /\ UNCHANGED <<accounts, ledger, eqTables, optTables, returned, engineVars>>
        ELSE /\ Len(orders) + Len(option_orders) < MaxOps
             /\ IF fill_price = None
                THEN /\ orders' = Append(orders, open_row)
                     /\ last' = "open"
                     /\ UNCHANGED <<ledger, trades, positions>>
                ELSE IF up.err # "ok"
                THEN /\ orders' = Append(orders, open_row)
                     /\ last' = up.err
                     /\ UNCHANGED <<ledger, trades, positions>>
                ELSE /\ orders' = Append(orders,
                            EquityOrderRow(account_id, symbol, side, qty, order_type,
                                           limit_price, stop_price, fill_price))
                     /\ trades' = Append(trades, EquityTradeRow(oid, symbol, qty, fill_price))
                     /\ ledger' = Append(ledger, EquityLedgerEntry(account_id, side, qty, fill_price))
                     /\ positions' = up.rows
                     /\ last' = "ok"
             /\ UNCHANGED <<accounts, optTables, returned, engineVars>>

\* the "Submit Equity Order" button
eq_submit(account_id, symbol, side, qty, order_type, limit_price, stop_price, P) ==
    IF ~HandlerValid(order_type, limit_price, stop_price)
    THEN /\ last' = "ValidationError"
         /\ UNCHANGED <<accounts, ledger, eqTables, optTables, returned, engineVars>>
    ELSE place_order(account_id, symbol, side, qty, order_type, limit_price, stop_price, P)

----------------------------------------------------------------------------
(* The re-evaluation sweep (broker.try_fill_open_orders, called by the      *)
(* "Refresh & Recalculate (orders)" button): every OPEN equity order of the *)
(* account is evaluated once against the quote fetched for its symbol.      *)

\* the orderings of a finite set: the sweep promises no order of evaluation
Perms(S) ==
    {f \in [1 .. Cardinality(S) -> S] :
        \A i \in 1 .. Cardinality(S), j \in 1 .. Cardinality(S) : f[i] = f[j] => i = j}

\* (mutant) the sweep loads every order that is not FILLED, a CANCELLED one included
OpenOrderIds_NotFilled(account_id) ==
    {i \in 1 .. Len(orders) : orders[i].account_id = account_id /\ orders[i].status # "FILLED"}

\* the orders the sweep loads
OpenOrderIds(account_id) ==
    {i \in 1 .. Len(orders) : orders[i].account_id = account_id /\ orders[i].status = "OPEN"}

\* the quotes a sweep can obtain: one per symbol that has an OPEN order, no lookup for
\* the other symbols
SweepQuotes(account_id) ==
    {quotes \in [EquitySymbols -> EquityQuotes \cup {NotQuoted}] :
        \A sym \in EquitySymbols :
            (quotes[sym] = NotQuoted) <=> (\A i \in OpenOrderIds(account_id) : orders[i].symbol # sym)}

\* the evaluation of order i against the price P of its symbol; st holds the four
\* equity-side tables
SweepOne(st, i, P) ==
    LET o == st.orders[i]
        fill_price == EquityFillPrice(o.side, o.order_type, o.limit_price, o.stop_price, P)
        up == upsert_position(st.positions, o.account_id, o.symbol,
                              IF o.side = "BUY" THEN o.qty ELSE -o.qty, fill_price)
    IN  IF P = NoData THEN st
        ELSE IF fill_price = None THEN st
        ELSE IF up.err # "ok" THEN st
        ELSE [orders |-> [st.orders EXCEPT ![i].status = "FILLED", ![i].filled_qty = o.qty,
                                           ![i].avg_fill_price = fill_price],
              trades |-> Append(st.trades, EquityTradeRow(i, o.symbol, o.qty, fill_price)),
              ledger |-> Append(st.ledger,
                                EquityLedgerEntry(o.account_id, o.side, o.qty, fill_price)),
              positions |-> up.rows]

\* (mutant) the first quote failure ends the sweep
RECURSIVE SweepOrders_AbortOnFailure(_, _, _)
SweepOrders_AbortOnFailure(st, ids, quotes) ==
    IF ids = <<>> THEN st
    ELSE IF quotes[st.orders[Head(ids)].symbol] = NoData THEN st
    ELSE SweepOrders_AbortOnFailure(
             SweepOne(st, Head(ids), quotes[st.orders[Head(ids)].symbol]), Tail(ids), quotes)

RECURSIVE SweepOrders(_, _, _)
SweepOrders(st, ids, quotes) ==
    IF ids = <<>> THEN st
    ELSE SweepOrders(SweepOne(st, Head(ids), quotes[st.orders[Head(ids)].symbol]),
                     Tail(ids), quotes)

\* one whole sweep: quotes holds the one quote fetched per symbol, ids the order of
\* evaluation
try_fill_open_orders(account_id, quotes, ids) ==
    LET st == SweepOrders([orders |-> orders, trades |-> trades, ledger |-> ledger,
                           positions |-> positions], ids, quotes)
    IN  /\ orders' = st.orders
        /\ trades' = st.trades
        /\ ledger' = st.ledger
        /\ positions' = st.positions
        /\ last' = "swept"
        /\ swept' = quotes
        /\ UNCHANGED <<accounts, optTables, returned, threadVars, ncalls, closed, market>>

----------------------------------------------------------------------------
(* place_option_order statement by statement, for calls that run           *)
(* concurrently (one Streamlit session per thread).  Every db.execute is   *)
(* its own connection and commit; upsert_option_position reads, then       *)
(* writes and commits.                                                     *)

Threads == {1, 2}
NoLocals == [account_id |-> 0, sym |-> "aapl", side |-> "BUY", qty |-> 0,
             fill_price |-> 0, oid |-> 0, fetched |-> {}]
ConcQuote == <<2, 6, 2>>
ConcQtys == {1, 2}

Begin(t) ==
    /\ pc[t] = "idle"
    /\ Len(option_orders) + Cardinality({u \in Threads : pc[u] = "insert_order"}) < MaxConcOps
    /\ \E a \in DefaultAccountRows, sym \in Symbols, side \in Sides, qty \in ConcQtys :
         /\ OptionReject(side, "MARKET", None, ConcQuote) = "ok"
         /\ loc' = [loc EXCEPT ![t] = [account_id |-> a.id, sym |-> sym, side |-> side,
                        qty |-> qty, fill_price |-> OptionFillPrice("MARKET", None, ConcQuote),
                        oid |-> 0, fetched |-> {}]]
    /\ pc' = [pc EXCEPT ![t] = "insert_order"]
    /\ UNCHANGED <<acct, ncalls, closed, quoteVars, accounts, ledger, eqTables, optTables, last, returned>>

InsertOrder(t) ==
    /\ pc[t] = "insert_order"
    /\ option_orders' = Append(option_orders,
            OptionOrderRow(loc[t].account_id, Contract(loc[t].sym), loc[t].side, loc[t].qty,
                           "MARKET", None, loc[t].fill_price))
    /\ loc' = [loc EXCEPT ![t].oid = Len(option_orders) + 1]
    /\ pc' = [pc EXCEPT ![t] = "insert_trade"]
    /\ UNCHANGED <<acct, ncalls, closed, quoteVars, accounts, ledger, eqTables, option_trades, option_positions, last, returned>>

InsertTrade(t) ==
    /\ pc[t] = "insert_trade"
    /\ option_trades' = Append(option_trades,
            OptionTradeRow(loc[t].oid, Contract(loc[t].sym), loc[t].qty, loc[t].fill_price))
    /\ pc' = [pc EXCEPT ![t] = "insert_ledger"]
    /\ UNCHANGED <<acct, ncalls, closed, quoteVars, accounts, ledger, eqTables, option_orders, option_positions, last, returned, loc>>

InsertLedger(t) ==
    /\ pc[t] = "insert_ledger"
    /\ ledger' = Append(ledger,
            OptionLedgerEntry(loc[t].account_id, loc[t].side, loc[t].qty, loc[t].fill_price))
    /\ pc' = [pc EXCEPT ![t] = "select_position"]
    /\ UNCHANGED <<acct, ncalls, closed, quoteVars, accounts, eqTables, optTables, last, returned, loc>>

SelectPositionStep(t) ==
    /\ pc[t] = "select_position"
    /\ loc' = [loc EXCEPT ![t].fetched =
            SelectOptionPosition(option_positions, loc[t].account_id, OptKey(Contract(loc[t].sym)))]
    /\ pc' = [pc EXCEPT ![t] = "write_position"]
    /\ UNCHANGED <<acct, ncalls, closed, quoteVars, accounts, ledger, eqTables, optTables, last, returned>>

WritePositionStep(t) ==
    /\ pc[t] = "write_position"
    /\ LET up == WriteOptionPosition(option_positions, loc[t].fetched, loc[t].account_id,
                                     OptKey(Contract(loc[t].sym)),
                                     OptionQtyDelta(loc[t].side, loc[t].qty), loc[t].fill_price)
       IN  /\ option_positions' = up.rows
           /\ last' = up.err
           /\ returned' = IF up.err = "ok" THEN returned \cup {loc[t].oid} ELSE returned
    /\ pc' = [pc EXCEPT ![t] = "idle"]
    /\ loc' = [loc EXCEPT ![t] = NoLocals]
    /\ UNCHANGED <<acct, ncalls, closed, quoteVars, accounts, ledger, eqTables, option_orders, option_trades>>

----------------------------------------------------------------------------
(* The program: every script run creates the default account if missing;   *)
(* the buttons act on that account.                                        *)

Init ==
    /\ accounts = {}
    /\ ledger = <<>>
    /\ orders = <<>>
    /\ trades = <<>>
    /\ positions = {}
    /\ option_orders = <<>>
    /\ option_trades = <<>>
    /\ option_positions = {}
    /\ last = "none"
    /\ returned = {}
    /\ pc = [t \in Threads |-> "idle"]
    /\ loc = [t \in Threads |-> NoLocals]
    /\ acct = [t \in Threads |-> NoAccountCall]
    /\ ncalls = 0
    /\ closed = {}
    /\ market = [sym \in EquitySymbols |-> 2]
    /\ cache = [sym \in EquitySymbols |-> NotCached]
    /\ swept = [sym \in EquitySymbols |-> NotQuoted]

ScriptRun == \E starting_cash \in StartingCash : get_or_create_default_account(starting_cash)

OptionForms == {<<"MARKET", None>>} \cup {<<"LIMIT", l>> : l \in LimitPrices}

SubmitOptionOrder ==
    \E a \in DefaultAccountRows, sym \in Symbols, side \in Sides, qty \in Qtys,
       form \in OptionForms, q \in OptionQuotes :
        place_option_order(a.id, Contract(sym), side, qty, form[1], form[2], q)

EquityForms == {<<"MARKET", None, None>>}
               \cup {<<"LIMIT", l, None>> : l \in LimitPrices}
               \cup {<<"STOP", None, s>> : s \in StopPrices}
               \cup {<<"STOP_LIMIT", l, s>> : l \in LimitPrices \ {None}, s \in StopPrices \ {None}}

SubmitEquityOrder ==
    \E a \in DefaultAccountRows, side \in Sides, qty \in Qtys,
       form \in EquityForms, P \in EquityQuotes :
        /\ eq_submit(a.id, "AAPL", side, qty, form[1], form[2], form[3], P)
        /\ UNCHANGED cache

\* db.upsert_position and db.upsert_option_position called on their own, with any
\* quantity delta
PositionDeltas == {-2, -1, 0, 1, 2}
FillPrices == {2, 4}

\* one direct call of db.upsert_position
CallUpsertPosition(account_id, symbol, qty_delta, price) ==
    LET up == upsert_position(positions, account_id, symbol, qty_delta, price)
    IN  /\ ncalls < MaxCalls
        /\ ncalls' = ncalls + 1
        /\ positions' = up.rows
        /\ last' = up.err
        /\ closed' = IF /\ SelectPosition(positions, account_id, symbol) # {}
                        /\ SelectPosition(up.rows, account_id, symbol) = {}
                     THEN closed \cup {<<"equity", symbol>>} ELSE closed
        /\ UNCHANGED <<accounts, ledger, orders, trades, optTables, returned, threadVars, quoteVars>>

UpsertPositionCall ==
    \E a \in DefaultAccountRows, qty_delta \in PositionDeltas, price \in FillPrices :
        CallUpsertPosition(a.id, "AAPL", qty_delta, price)

\* one direct call of db.upsert_option_position
CallUpsertOptionPosition(account_id, key, qty_delta, price) ==
    LET up == upsert_option_position(option_positions, account_id, key, qty_delta, price)
    IN  /\ ncalls < MaxCalls
        /\ ncalls' = ncalls + 1
        /\ option_positions' = up.rows
        /\ last' = up.err
        /\ closed' = IF /\ SelectOptionPosition(option_positions, account_id, key) # {}
                        /\ SelectOptionPosition(up.rows, account_id, key) = {}
                     THEN closed \cup {<<"option", key>>} ELSE closed
        /\ UNCHANGED <<accounts, ledger, eqTables, option_orders, option_trades,
                       returned, threadVars, quoteVars>>

UpsertOptionPositionCall ==
    \E a \in DefaultAccountRows, sym \in Symbols, qty_delta \in PositionDeltas, price \in FillPrices :
        CallUpsertOptionPosition(a.id, OptKey(Contract(sym)), qty_delta, price)

NextDb == ScriptRun \/ UpsertPositionCall \/ UpsertOptionPositionCall
SpecDb == Init /\ [][NextDb]_vars

\* the whole program, one call at a time
Next == ScriptRun \/ SubmitOptionOrder \/ SubmitEquityOrder
Spec == Init /\ [][Next]_vars

\* the option engine alone, one call at a time
NextOpt == ScriptRun \/ SubmitOptionOrder
SpecOpt == Init /\ [][NextOpt]_vars

\* the option engine fed well-formed requests only: a positive quantity, and a positive
\* limit on a LIMIT order; the quote may still be missing, zero or away from the limit
WellFormedForms == {<<"MARKET", None>>} \cup {<<"LIMIT", l>> : l \in {x \in LimitPrices : x # None /\ x > 0}}

SubmitWellFormedOptionOrder ==
    \E a \in DefaultAccountRows, sym \in Symbols, side \in Sides, qty \in {x \in Qtys : x > 0},
       form \in WellFormedForms, q \in OptionQuotes :
        place_option_order(a.id, Contract(sym), side, qty, form[1], form[2], q)

NextFunds == ScriptRun \/ SubmitWellFormedOptionOrder
SpecFunds == Init /\ [][NextFunds]_vars

\* several accounts: a second account row with its opening deposit, beside "default"
OtherAccountNames == {"second"}

CreateAccount(name, starting_cash) ==
    /\ \A a \in accounts : a.name # name
    /\ accounts' = accounts \cup
            {[id |-> MaxId(accounts) + 1, name |-> name, starting_cash |-> starting_cash]}
    /\ ledger' = Append(ledger, LedgerEntry(MaxId(accounts) + 1, "deposit", starting_cash))
    /\ last' = "created"
    /\ UNCHANGED <<eqTables, optTables, returned, callVars>>

OpenSecondAccount ==
    \E name \in OtherAccountNames, starting_cash \in StartingCash : CreateAccount(name, starting_cash)

\* a MARKET option order placed for any account, the contract quoted or not
AccountQtys == {x \in Qtys : x > 0}
AccountOptionQuotes == {<<2, 6, 2>>, NotInChain}

SubmitOptionOrderFor ==
    \E a \in accounts, sym \in Symbols, side \in Sides, qty \in AccountQtys,
       q \in AccountOptionQuotes :
        place_option_order(a.id, Contract(sym), side, qty, "MARKET", None, q)

\* a MARKET equity order placed for any account
AccountEquityQuotes == {4}

SubmitEquityOrderFor ==
    \E a \in accounts, side \in Sides, qty \in AccountQtys, P \in AccountEquityQuotes :
        /\ place_order(a.id, "AAPL", side, qty, "MARKET", None, None, P)
        /\ UNCHANGED cache

\* script runs of several sessions, each with its own starting cash, their calls of
\* get_or_create_default_account interleaving
SessionStartingCash == {1000, 2000}

AccountCallBegins == \E t \in Threads, starting_cash \in SessionStartingCash : AccountSelect(t, starting_cash)
AccountCallEnds == \E t \in Threads : AccountInsertOrReturn(t)

NextSessions == AccountCallBegins \/ AccountCallEnds
SpecSessions == Init /\ [][NextSessions]_vars

NextAccounts == ScriptRun \/ OpenSecondAccount \/ SubmitOptionOrderFor \/ SubmitEquityOrderFor
SpecAccounts == Init /\ [][NextAccounts]_vars

\* the equity engine alone, one call at a time
NextEq == ScriptRun \/ SubmitEquityOrder
SpecEq == Init /\ [][NextEq]_vars

\* the "Refresh & Recalculate (orders)" button
RefreshOrders ==
    \E a \in DefaultAccountRows :
        \E quotes \in SweepQuotes(a.id), ids \in Perms(OpenOrderIds(a.id)) :
            /\ try_fill_open_orders(a.id, quotes, ids)
            /\ UNCHANGED cache

\* an OPEN order is cancelled from outside the engine
CancelOrder ==
    \E i \in 1 .. Len(orders) :
        /\ orders[i].status = "OPEN"
        /\ orders' = [orders EXCEPT ![i].status = "CANCELLED"]
        /\ last' = "cancelled"
        /\ UNCHANGED <<accounts, ledger, trades, positions, optTables, returned, callVars>>

\* the equity form with every order type, on one symbol
SweepForms == {<<"MARKET", None, None>>, <<"LIMIT", 3, None>>, <<"STOP", None, 3>>,
               <<"STOP_LIMIT", 3, 3>>, <<"STOP_LIMIT", 5, 3>>}

SubmitOrderOfType ==
    \E a \in DefaultAccountRows, side \in Sides, form \in SweepForms, P \in EquityQuotes :
        /\ eq_submit(a.id, "AAPL", side, 1, form[1], form[2], form[3], P)
        /\ UNCHANGED cache

\* the equity form with either symbol, MARKET and LIMIT orders
SymbolForms == {<<"MARKET", None, None>>, <<"LIMIT", 3, None>>}

SubmitOrderOnSymbol ==
    \E a \in DefaultAccountRows, symbol \in EquitySymbols, side \in Sides,
       form \in SymbolForms, P \in EquityQuotes :
        /\ eq_submit(a.id, symbol, side, 1, form[1], form[2], form[3], P)
        /\ UNCHANGED cache

\* the equity engine with its sweep, every order type on one symbol
NextSweep == ScriptRun \/ SubmitOrderOfType \/ RefreshOrders
SpecSweep == Init /\ [][NextSweep]_vars

\* the same, with orders cancelled from outside the engine
NextCancel == ScriptRun \/ SubmitOrderOfType \/ RefreshOrders \/ CancelOrder
SpecCancel == Init /\ [][NextCancel]_vars

\* the equity engine with its sweep, orders on two symbols
NextSymbols == ScriptRun \/ SubmitOrderOnSymbol \/ RefreshOrders
SpecSymbols == Init /\ [][NextSymbols]_vars

\* The equity engine taking its quotes from data.last_price.

\* the "Last Price" metric of the equity tab, drawn on every script run
ShowLastPrice ==
    /\ cache' = CacheAfter({"AAPL"})
    /\ last' = "shown"
    /\ UNCHANGED <<accounts, ledger, eqTables, optTables, returned, engineVars>>

\* the market moves: yfinance returns another close for the symbol
MarketMove ==
    \E P \in EquityQuotes :
        /\ market' = [market EXCEPT !["AAPL"] = P]
        /\ last' = "moved"
        /\ UNCHANGED <<accounts, ledger, eqTables, optTables, returned,
                       threadVars, ncalls, closed, cache, swept>>

\* the "Update prices now" button: history.cache_clear()
UpdatePrices ==
    /\ cache' = [sym \in EquitySymbols |-> NotCached]
    /\ last' = "cache_cleared"
    /\ UNCHANGED <<accounts, ledger, eqTables, optTables, returned, engineVars>>

SubmitOrderAtLastPrice ==
    \E a \in DefaultAccountRows, side \in Sides, form \in SymbolForms :
        /\ eq_submit(a.id, "AAPL", side, 1, form[1], form[2], form[3], last_price("AAPL"))
        /\ cache' = CacheAfter({"AAPL"})

\* the quotes of a sweep: last_price of every symbol that has an OPEN order
LastPriceQuotes(account_id) ==
    [sym \in EquitySymbols |->
        IF \E i \in OpenOrderIds(account_id) : orders[i].symbol = sym
        THEN last_price(sym) ELSE NotQuoted]

RefreshOrdersAtLastPrice ==
    \E a \in DefaultAccountRows :
        \E ids \in Perms(OpenOrderIds(a.id)) :
            /\ try_fill_open_orders(a.id, LastPriceQuotes(a.id), ids)
            /\ cache' = CacheAfter({orders[i].symbol : i \in OpenOrderIds(a.id)})

NextQuote ==
    \/ ScriptRun
    \/ ShowLastPrice
    \/ MarketMove
    \/ UpdatePrices
    \/ SubmitOrderAtLastPrice
    \/ RefreshOrdersAtLastPrice
SpecQuote == Init /\ [][NextQuote]_vars

\* Several SELL orders waiting on one symbol.  The holding comes from BUY fills
\* applied through db.upsert_position; the SELL orders are LIMIT orders, OPEN when the
\* quote is below their limit.
SellQtys == {1, 2}

BuyFillCall ==
    \E a \in DefaultAccountRows, qty \in SellQtys, price \in FillPrices :
        CallUpsertPosition(a.id, "AAPL", qty, price)

SubmitSellOrder ==
    \E a \in DefaultAccountRows, qty \in SellQtys, P \in EquityQuotes :
        /\ eq_submit(a.id, "AAPL", "SELL", qty, "LIMIT", 3, None, P)
        /\ UNCHANGED cache

NextSells == ScriptRun \/ BuyFillCall \/ SubmitSellOrder \/ RefreshOrders
SpecSells == Init /\ [][NextSells]_vars

\* option orders submitted from two sessions at once
NextConc ==
    \/ ScriptRun
    \/ \E t \in Threads : Begin(t)
    \/ \E t \in Threads : InsertOrder(t)
    \/ \E t \in Threads : InsertTrade(t)
    \/ \E t \in Threads : InsertLedger(t)
    \/ \E t \in Threads : SelectPositionStep(t)
    \/ \E t \in Threads : WritePositionStep(t)
SpecConc == Init /\ [][NextConc]_vars

----------------------------------------------------------------------------
(* Quantities the claims speak of *)

AllIdle == \A t \in Threads : pc[t] = "idle"

FilledCount(rows) == Cardinality({i \in 1 .. Len(rows) : rows[i].status = "FILLED"})

\* the cash effect of a fill: a BUY subtracts its notional, a SELL adds it
CashEffect(side, price, qty, multiplier) ==
    IF side = "BUY" THEN -(price * qty * multiplier) ELSE price * qty * multiplier

\* the sum of the cash effects of the option fills 1..n of the account that returned to the caller
RECURSIVE OptionFillsCash(_, _)
OptionFillsCash(n, account_id) ==
    IF n = 0 THEN 0
    ELSE (IF n \in returned /\ option_orders[n].account_id = account_id
          THEN CashEffect(option_orders[n].side, option_orders[n].avg_fill_price,
                          option_orders[n].filled_qty, Multiplier)
          ELSE 0) + OptionFillsCash(n - 1, account_id)

\* the same for the FILLED equity orders 1..n of the account
RECURSIVE EquityFillsCash(_, _)
EquityFillsCash(n, account_id) ==
    IF n = 0 THEN 0
    ELSE (IF orders[n].status = "FILLED" /\ orders[n].account_id = account_id
          THEN CashEffect(orders[n].side, orders[n].avg_fill_price, orders[n].filled_qty, 1)
          ELSE 0) + EquityFillsCash(n - 1, account_id)

\* contracts bought minus contracts sold by the option fills 1..n that returned to the caller
RECURSIVE OptionFillsQty(_, _, _)
OptionFillsQty(n, account_id, key) ==
    IF n = 0 THEN 0
    ELSE (IF n \in returned /\ option_orders[n].account_id = account_id
             /\ option_orders[n].key = key
          THEN OptionQtyDelta(option_orders[n].side, option_orders[n].qty)
          ELSE 0) + OptionFillsQty(n - 1, account_id, key)

OptionKeys == {OptKey(Contract(sym)) : sym \in Symbols}

HeldOptionQty(account_id, key) ==
    LET f == SelectOptionPosition(option_positions, account_id, key)
    IN  IF f = {} THEN 0 ELSE (CHOOSE r \in f : TRUE).qty

TradesOfOptionOrder(oid) == {i \in 1 .. Len(option_trades) : option_trades[i].order_id = oid}

----------------------------------------------------------------------------
(* Claims *)

\* C1: a fill that fails because it would make the position negative changes none of
\* the four records: no further FILLED order row, no trade row, no ledger entry and
\* the position rows as before.
C1_FailedFillWritesNothing ==
    [][last' = "PositionViolation" =>
          /\ FilledCount(option_orders') = FilledCount(option_orders)
          /\ FilledCount(orders') = FilledCount(orders)
          /\ option_trades' = option_trades /\ trades' = trades
          /\ ledger' = ledger
          /\ option_positions' = option_positions /\ positions' = positions]_vars

\* C2: the cash balance of every account is its starting cash plus the cash effects
\* of its fills (BUY -notional, SELL +notional), and it is the sum of its ledger entries.
C2_CashIsStartMinusFills ==
    AllIdle =>
      \A a \in accounts :
        /\ get_cash_balance(a.id) = SumAmounts(ledger, a.id)
        /\ get_cash_balance(a.id) =
              a.starting_cash + OptionFillsCash(Len(option_orders), a.id)
                              + EquityFillsCash(Len(orders), a.id)

\* C3: every stored position quantity, equity or option, is >= 0 in every reachable state.
C3_QuantityNeverNegative ==
    /\ \A r \in positions : r.qty >= 0
    /\ \A r \in option_positions : r.qty >= 0

\* C4: once the concurrent calls have all completed, the option position is what the
\* successful fills add up to (no update is lost, and SELLs that together exceed the
\* holding have not all succeeded), as after running the calls one after the other.
C4_ConcurrentFillsSerialize ==
    AllIdle =>
      \A a \in accounts, key \in OptionKeys :
        HeldOptionQty(a.id, key) = OptionFillsQty(Len(option_orders), a.id, key)

\* C5: after every completed call, every FILLED option order has exactly one trade row
\* referencing it, with the order's filled_qty (= its qty) and its avg_fill_price.
C5_FilledOrderHasOneTrade ==
    \A oid \in 1 .. Len(option_orders) :
      option_orders[oid].status = "FILLED" =>
        /\ Cardinality(TradesOfOptionOrder(oid)) = 1
        /\ option_orders[oid].filled_qty = option_orders[oid].qty
        /\ \A i \in TradesOfOptionOrder(oid) :
             /\ option_trades[i].qty = option_orders[oid].filled_qty
             /\ option_trades[i].price = option_orders[oid].avg_fill_price

\* a failed call has completed and left a FILLED order behind
C5_Witness ==
    /\ last = "PositionViolation"
    /\ \E oid \in 1 .. Len(option_orders) : option_orders[oid].status = "FILLED"

\* C6: a position row exists for a key if and only if the quantity held for the key is
\* non-zero; no row with quantity 0 is stored.
C6_RowIffNonZero ==
    /\ \A r \in positions : r.qty # 0
    /\ \A r \in option_positions : r.qty # 0
    /\ \A a \in accounts, key \in OptionKeys :
         (SelectOptionPosition(option_positions, a.id, key) # {})
            <=> (OptionFillsQty(Len(option_orders), a.id, key) # 0)

\* C7: a malformed request (quantity <= 0, or a LIMIT, STOP or STOP_LIMIT order without
\* the positive price it needs) writes nothing, so no stored order row is malformed.
C7_MalformedNeverStored ==
    /\ \A i \in 1 .. Len(option_orders) :
         /\ option_orders[i].qty > 0
         /\ option_orders[i].order_type = "LIMIT" =>
               (option_orders[i].limit_price # None /\ option_orders[i].limit_price > 0)
    /\ \A i \in 1 .. Len(orders) :
         EquityValid(orders[i].qty, orders[i].order_type,
                     orders[i].limit_price, orders[i].stop_price)

\* C8: a place_option_order call rejected for an unmet limit, a contract missing from
\* the chain or a missing quote leaves option_orders, option_trades, ledger and
\* option_positions as they were.
C8_RejectedOptionOrderWritesNothing ==
    [][last' \in {"LimitNotMet", "ContractNotFound", "NoQuote"} =>
          UNCHANGED <<option_orders, option_trades, ledger, option_positions>>]_vars

\* a call was rejected for an unmet limit when rows were already stored
C8_Witness == last = "LimitNotMet" /\ Len(option_orders) > 0 /\ option_positions # {}

\* C9: a filled MARKET option order fills at (bid+ask)/2 when bid and ask are both
\* positive and at last otherwise; a filled LIMIT option order fills at its limit
\* price, and only when marketable (BUY: mid <= limit, SELL: mid >= limit).
C9_OptionFillPrice ==
    [][\A a \in DefaultAccountRows, sym \in Symbols, side \in Sides, qty \in Qtys,
          form \in OptionForms, q \in OptionQuotes :
          (/\ place_option_order(a.id, Contract(sym), side, qty, form[1], form[2], q)
           /\ Len(option_orders') = Len(option_orders) + 1)
          => LET row == option_orders'[Len(option_orders')]
                 mid == IF q[1] > 0 /\ q[2] > 0 THEN (q[1] + q[2]) \div 2 ELSE q[3]
             IN  /\ form[1] = "MARKET" => row.avg_fill_price = mid
                 /\ form[1] = "LIMIT" =>
                       /\ row.avg_fill_price = form[2]
                       /\ row.avg_fill_price = row.limit_price
                       /\ IF side = "BUY" THEN mid <= form[2] ELSE mid >= form[2]]_vars

\* C10: no option order row has status OPEN; every option order row is FILLED with
\* filled_qty equal to its qty.
C10_OptionOrdersAlwaysFilled ==
    \A i \in 1 .. Len(option_orders) :
      /\ option_orders[i].status # "OPEN"
      /\ option_orders[i].status = "FILLED"
      /\ option_orders[i].filled_qty = option_orders[i].qty

\* two option orders are stored and the last call filled
C10_Witness == Len(option_orders) = 2 /\ last = "ok"

\* the position the two fills q1 at p1 then q2 at p2 leave on a key with no prior row
TwoBuysEquity(q1, p1, q2, p2) ==
    upsert_position(upsert_position({}, 1, "AAPL", q1, p1).rows, 1, "AAPL", q2, p2).rows

TwoBuysOption(key, q1, p1, q2, p2) ==
    upsert_option_position(upsert_option_position({}, 1, key, q1, p1).rows, 1, key, q2, p2).rows

\* the row r2 is the row r after a quantity-increasing fill of d at price p:
\* quantity q + d and average cost (q*a + d*p) / (q + d), stated without division
IsIncreasedBy(r, r2, d, p) ==
    /\ r2.qty = r.qty + d
    /\ r2.avg_price.n * r.avg_price.d * (r.qty + d)
          = r2.avg_price.d * (r.qty * r.avg_price.n + d * p * r.avg_price.d)

\* the row r2 opens a position with the fill of d at price p
IsOpenedBy(r2, d, p) == r2.qty = d /\ r2.avg_price.n = p * r2.avg_price.d

\* C11: a quantity-increasing fill d at p on a position (q, a) gives quantity q + d and
\* average (q*a + d*p)/(q+d), and on a key with no row a position (d, p); so two BUY
\* fills q1 at p1 then q2 at p2 on a key with no prior position give quantity q1+q2
\* and average (q1*p1 + q2*p2)/(q1+q2).
C11_WeightedAverage ==
    [][/\ \A a \in DefaultAccountRows, d \in PositionDeltas, p \in FillPrices :
            (d > 0 /\ CallUpsertPosition(a.id, "AAPL", d, p) /\ last' = "ok") =>
                LET f == SelectPosition(positions, a.id, "AAPL")
                    g == SelectPosition(positions', a.id, "AAPL")
                IN  /\ Cardinality(g) = 1
                    /\ \A r2 \in g : IF f = {} THEN IsOpenedBy(r2, d, p)
                                      ELSE \A r \in f : IsIncreasedBy(r, r2, d, p)
       /\ \A a \in DefaultAccountRows, key \in {OptKey(Contract(sym)) : sym \in Symbols},
             d \in PositionDeltas, p \in FillPrices :
            (d > 0 /\ CallUpsertOptionPosition(a.id, key, d, p) /\ last' = "ok") =>
                LET f == SelectOptionPosition(option_positions, a.id, key)
                    g == SelectOptionPosition(option_positions', a.id, key)
                IN  /\ Cardinality(g) = 1
                    /\ \A r2 \in g : IF f = {} THEN IsOpenedBy(r2, d, p)
                                      ELSE \A r \in f : IsIncreasedBy(r, r2, d, p)
       /\ \A q1 \in {1, 2}, q2 \in {1, 2}, p1 \in FillPrices, p2 \in FillPrices :
            \A rows \in {TwoBuysEquity(q1, p1, q2, p2),
                          TwoBuysOption(OptKey(Contract("aapl")), q1, p1, q2, p2)} :
              /\ Cardinality(rows) = 1
              /\ \A r \in rows : /\ r.qty = q1 + q2
                                  /\ r.avg_price.n * (q1 + q2)
                                        = r.avg_price.d * (q1 * p1 + q2 * p2)]_vars

\* BUY 1 at 2 and BUY 2 at 4 (either order) have left 3 at the average 10/3
C11_Witness ==
    /\ \E r \in positions : r.qty = 3 /\ r.avg_price = [n |-> 10, d |-> 3]
    /\ last = "ok"

\* C12: a SELL fill that leaves a positive quantity changes the quantity only: the
\* average cost after it is the average cost before it, whatever the sell price.
C12_SellKeepsAverage ==
    [][/\ \A a \in DefaultAccountRows, d \in PositionDeltas, p \in FillPrices :
            (d < 0 /\ CallUpsertPosition(a.id, "AAPL", d, p) /\ last' = "ok") =>
                \A r \in SelectPosition(positions, a.id, "AAPL"),
                   r2 \in SelectPosition(positions', a.id, "AAPL") :
                    r2.qty > 0 => (r2.qty = r.qty + d /\ r2.avg_price = r.avg_price)
       /\ \A a \in DefaultAccountRows, key \in {OptKey(Contract(sym)) : sym \in Symbols},
             d \in PositionDeltas, p \in FillPrices :
            (d < 0 /\ CallUpsertOptionPosition(a.id, key, d, p) /\ last' = "ok") =>
                \A r \in SelectOptionPosition(option_positions, a.id, key),
                   r2 \in SelectOptionPosition(option_positions', a.id, key) :
                    r2.qty > 0 => (r2.qty = r.qty + d /\ r2.avg_price = r.avg_price)]_vars

\* 1 at 2 and 1 at 4 were bought (average 3) and 1 was sold: 1 is left at average 3,
\* which is the fill price of no BUY
C12_Witness ==
    /\ \E r \in option_positions : r.qty = 1 /\ r.avg_price = [n |-> 3, d |-> 1]
    /\ last = "ok"

\* C13: a SELL fill that brings the quantity to exactly 0 removes the position row, and
\* the next BUY fill on the key creates a row whose average cost is that BUY's fill
\* price, whatever average the removed position had.
C13_ZeroRemovesRowNextBuyFresh ==
    [][/\ \A a \in DefaultAccountRows, d \in PositionDeltas, p \in FillPrices :
            (CallUpsertPosition(a.id, "AAPL", d, p) /\ last' = "ok") =>
                LET f == SelectPosition(positions, a.id, "AAPL")
                    g == SelectPosition(positions', a.id, "AAPL")
                IN  /\ (d < 0 /\ \E r \in f : r.qty + d = 0) => g = {}
                    /\ (d > 0 /\ f = {}) =>
                          (Cardinality(g) = 1 /\ \A r2 \in g : IsOpenedBy(r2, d, p))
       /\ \A a \in DefaultAccountRows, key \in {OptKey(Contract(sym)) : sym \in Symbols},
             d \in PositionDeltas, p \in FillPrices :
            (CallUpsertOptionPosition(a.id, key, d, p) /\ last' = "ok") =>
                LET f == SelectOptionPosition(option_positions, a.id, key)
                    g == SelectOptionPosition(option_positions', a.id, key)
                IN  /\ (d < 0 /\ \E r \in f : r.qty + d = 0) => g = {}
                    /\ (d > 0 /\ f = {}) =>
                          (Cardinality(g) = 1 /\ \A r2 \in g : IsOpenedBy(r2, d, p))]_vars

\* a position bought at 2 was sold to zero, and the key holds a position again, at 4
C13_Witness ==
    /\ <<"equity", "AAPL">> \in closed
    /\ \E r \in positions : r.qty > 0 /\ r.avg_price = [n |-> 4, d |-> 1]
    /\ last = "ok"

----------------------------------------------------------------------------
(* Claims about the equity engine and its sweep *)

TradesOfOrder(trs, oid) == {k \in 1 .. Len(trs) : trs[k].order_id = oid}

\* the cash effect of the orders 1..n that were OPEN in old and are FILLED in new
RECURSIVE SweepFillsCash(_, _, _)
SweepFillsCash(old, new, n) ==
    IF n = 0 THEN 0
    ELSE (IF old[n].status = "OPEN" /\ new[n].status = "FILLED"
          THEN CashEffect(new[n].side, new[n].avg_fill_price, new[n].filled_qty, 1)
          ELSE 0) + SweepFillsCash(old, new, n - 1)

\* the order row o as it is once filled at price
FilledAt(o, price) ==
    [o EXCEPT !.status = "FILLED", !.filled_qty = o.qty, !.avg_fill_price = price]

\* the step submits an order of the given type at the quoted price P, and the order
\* passes validation
SubmitsAt(side, form, P) ==
    \E a \in DefaultAccountRows :
        /\ eq_submit(a.id, "AAPL", side, 1, form[1], form[2], form[3], P)
        /\ P # NoData
        /\ Len(orders') = Len(orders) + 1

\* the step is a sweep (every other step sets last to another value): swept' holds the
\* quote it fetched for each symbol with OPEN orders
IsSweep == last' = "swept"

\* C14: an equity order is created OPEN or FILLED; FILLED and CANCELLED are terminal (no
\* placeOrder or sweep changes such a row), so an order moves to FILLED at most once and
\* only from OPEN, and a CANCELLED order is never filled by the sweep.
C14_StatusLifecycle ==
    [][/\ Len(orders') >= Len(orders)
       /\ \A i \in 1 .. Len(orders') :
            IF i > Len(orders)
            THEN orders'[i].status \in {"OPEN", "FILLED"}
            ELSE /\ orders[i].status \in {"FILLED", "CANCELLED"} => orders'[i] = orders[i]
                 /\ orders'[i].status = "FILLED" => orders[i].status \in {"OPEN", "FILLED"}
                 /\ orders'[i].status = "CANCELLED" =>
                       /\ orders'[i].filled_qty = 0
                       /\ TradesOfOrder(trades', i) = {}]_vars

\* a sweep quoted 2 while a cancelled BUY LIMIT 3, marketable at that quote, was stored
C14_Witness ==
    /\ last = "swept"
    /\ swept["AAPL"] = 2
    /\ \E i \in 1 .. Len(orders) :
          /\ orders[i].status = "CANCELLED"
          /\ orders[i].order_type = "LIMIT" /\ orders[i].side = "BUY"

\* C15: an equity LIMIT order not marketable at submission is stored OPEN with zero
\* filled quantity, no trade and no change of cash or position; a sweep fills an OPEN
\* LIMIT order only at a marketable quote, at the limit price and not at the quote, and
\* cash changes by limit price x quantity.
C15_LimitOpenThenFilledAtLimit ==
    [][/\ \A side \in Sides, form \in SweepForms, P \in EquityQuotes :
            (form[1] = "LIMIT" /\ SubmitsAt(side, form, P) /\ ~Marketable(side, form[2], P)) =>
                /\ orders'[Len(orders')].status = "OPEN"
                /\ orders'[Len(orders')].filled_qty = 0
                /\ TradesOfOrder(trades', Len(orders')) = {}
                /\ UNCHANGED <<trades, ledger, positions>>
       /\ IsSweep =>
            /\ \A i \in 1 .. Len(orders) :
                 (orders[i].status = "OPEN" /\ orders[i].order_type = "LIMIT") =>
                    LET o == orders[i]
                        P == swept'[o.symbol]
                        ok == P # NoData /\ Marketable(o.side, o.limit_price, P)
                    IN  /\ orders'[i] \in {o, FilledAt(o, o.limit_price)}
                        /\ orders'[i].status = "FILLED" => ok
                        /\ (ok /\ o.side = "BUY") => orders'[i].status = "FILLED"
            /\ \A a \in accounts :
                 SumAmounts(ledger', a.id) - SumAmounts(ledger, a.id)
                    = SweepFillsCash(orders, orders', Len(orders))]_vars

\* the one order, a BUY LIMIT 3, was OPEN when a sweep quoted 2 and is FILLED at 3;
\* cash went from 1000 to 997
C15_Witness ==
    /\ last = "swept" /\ swept["AAPL"] = 2
    /\ Len(orders) = 1
    /\ orders[1].order_type = "LIMIT" /\ orders[1].side = "BUY"
    /\ orders[1].status = "FILLED" /\ orders[1].avg_fill_price = 3
    /\ \A a \in accounts : get_cash_balance(a.id) = a.starting_cash - 3

\* C16: an equity STOP order stays OPEN while its trigger condition is false (BUY:
\* P < stop, SELL: P > stop) and fills, at submission or in a sweep, at the first
\* evaluation whose price P meets the condition, at P and not at the stop price.
C16_StopFillsAtQuote ==
    [][/\ \A side \in Sides, form \in SweepForms, P \in EquityQuotes :
            (form[1] = "STOP" /\ SubmitsAt(side, form, P)) =>
                LET o == orders'[Len(orders')]
                IN  /\ ~Triggered(side, form[3], P) => (o.status = "OPEN" /\ o.filled_qty = 0)
                    /\ o.status = "FILLED" => (Triggered(side, form[3], P) /\ o.avg_fill_price = P)
                    /\ (Triggered(side, form[3], P) /\ side = "BUY") => o.status = "FILLED"
       /\ IsSweep =>
            \A i \in 1 .. Len(orders) :
              (orders[i].status = "OPEN" /\ orders[i].order_type = "STOP") =>
                 LET o == orders[i]
                     P == swept'[o.symbol]
                     ok == P # NoData /\ Triggered(o.side, o.stop_price, P)
                 IN  /\ orders'[i] \in {o, FilledAt(o, P)}
                     /\ orders'[i].status = "FILLED" => ok
                     /\ (ok /\ o.side = "BUY") => orders'[i].status = "FILLED"]_vars

\* the one order, a BUY STOP 3, was OPEN when a sweep quoted 4 and is FILLED at 4
C16_Witness ==
    /\ last = "swept" /\ swept["AAPL"] = 4
    /\ Len(orders) = 1
    /\ orders[1].order_type = "STOP" /\ orders[1].side = "BUY" /\ orders[1].stop_price = 3
    /\ orders[1].status = "FILLED" /\ orders[1].avg_fill_price = 4

\* C17: an equity STOP_LIMIT order fills in an evaluation exactly when, at that
\* evaluation's price P, the stop condition and the limit condition both hold, and then
\* at the limit price; otherwise it stays OPEN with its row unchanged, so a crossing of
\* the stop in an earlier evaluation is stored nowhere and has no later effect.
C17_StopLimitNeedsBothNow ==
    [][/\ \A side \in Sides, form \in SweepForms, P \in EquityQuotes :
            (form[1] = "STOP_LIMIT" /\ SubmitsAt(side, form, P)) =>
                LET o == orders'[Len(orders')]
                    ok == Triggered(side, form[3], P) /\ Marketable(side, form[2], P)
                IN  /\ o.status = "FILLED" => (ok /\ o.avg_fill_price = form[2])
                    /\ ~ok => o = EquityOrderRow(o.account_id, "AAPL", side, 1, "STOP_LIMIT",
                                                 form[2], form[3], None)
                    /\ (ok /\ side = "BUY") => o.status = "FILLED"
       /\ IsSweep =>
            \A i \in 1 .. Len(orders) :
              (orders[i].status = "OPEN" /\ orders[i].order_type = "STOP_LIMIT") =>
                 LET o == orders[i]
                     P == swept'[o.symbol]
                     ok == /\ P # NoData
                           /\ Triggered(o.side, o.stop_price, P)
                           /\ Marketable(o.side, o.limit_price, P)
                 IN  /\ orders'[i] \in {o, FilledAt(o, o.limit_price)}
                     /\ orders'[i].status = "FILLED" => ok
                     /\ (ok /\ o.side = "BUY") => orders'[i].status = "FILLED"]_vars

\* the one order, a BUY STOP_LIMIT with limit 3 and stop 3, is OPEN after a sweep that
\* quoted 2: marketable there, and triggered only at the other price, 4
C17_Witness ==
    /\ last = "swept" /\ swept["AAPL"] = 2
    /\ Len(orders) = 1
    /\ orders[1].order_type = "STOP_LIMIT" /\ orders[1].side = "BUY"
    /\ orders[1].limit_price = 3 /\ orders[1].stop_price = 3
    /\ orders[1].status = "OPEN"

\* C18: in a sweep, a quote failure for one symbol leaves the orders on that symbol
\* OPEN and unchanged and does not end the sweep: every OPEN order on another symbol is
\* evaluated in the same pass, against the one quote fetched for its symbol, and filled
\* if it qualifies.
C18_QuoteFailureSkipsSymbolOnly ==
    [][IsSweep =>
         \A i \in 1 .. Len(orders) :
            LET o == orders[i]
                P == swept'[o.symbol]
                fill_price == EquityFillPrice(o.side, o.order_type, o.limit_price,
                                              o.stop_price, P)
            IN  /\ o.status # "OPEN" => orders'[i] = o
                /\ o.status = "OPEN" =>
                      /\ P # NotQuoted
                      /\ IF P = NoData \/ fill_price = None
                         THEN orders'[i] = o
                         ELSE /\ orders'[i] \in {o, FilledAt(o, fill_price)}
                              /\ o.side = "BUY" => orders'[i].status = "FILLED"]_vars

\* the quote of AAPL failed in the last sweep and its order is still OPEN, while the
\* order on MSFT was filled in that sweep
C18_Witness ==
    /\ last = "swept"
    /\ swept["AAPL"] = NoData /\ swept["MSFT"] = 2
    /\ Len(orders) = 2
    /\ orders[1].symbol = "AAPL" /\ orders[1].status = "OPEN" /\ orders[1].order_type = "LIMIT"
    /\ orders[2].symbol = "MSFT" /\ orders[2].status = "FILLED" /\ orders[2].order_type = "LIMIT"

C20_LedgerAppendOnly ==
    [][/\ Len(ledger') >= Len(ledger)
       /\ SubSeq(ledger', 1, Len(ledger)) = ledger
       /\ returned' # returned =>
            LET o == option_orders'[Len(option_orders')]
            IN  ledger' = Append(ledger,
                    [account_id |-> o.account_id,
                     kind |-> IF o.side = "BUY" THEN "trade_buy" ELSE "trade_sell",
                     amount |-> CashEffect(o.side, o.avg_fill_price, o.filled_qty, Multiplier)])
       /\ (returned' = returned /\ accounts' = accounts) => ledger' = ledger]_vars

\* the quantity held of the symbol in the rows (0 when there is no row)
HeldQty(rows, account_id, symbol) ==
    LET f == SelectPosition(rows, account_id, symbol)
    IN  IF f = {} THEN 0 ELSE (CHOOSE r \in f : TRUE).qty

\* the quantities of the SELL orders 1..n on the symbol that were OPEN in old and are
\* FILLED in new
RECURSIVE SweepSoldQty(_, _, _, _)
SweepSoldQty(old, new, n, symbol) ==
    IF n = 0 THEN 0
    ELSE (IF /\ old[n].status = "OPEN" /\ new[n].status = "FILLED"
             /\ old[n].side = "SELL" /\ old[n].symbol = symbol
          THEN old[n].qty ELSE 0) + SweepSoldQty(old, new, n - 1, symbol)

\* the OPEN SELL orders on the symbol, and their combined quantity over the rows 1..n
OpenSells(rows, symbol) ==
    {i \in 1 .. Len(rows) :
        rows[i].status = "OPEN" /\ rows[i].side = "SELL" /\ rows[i].symbol = symbol}

RECURSIVE OpenSellQty(_, _, _)
OpenSellQty(rows, n, symbol) ==
    IF n = 0 THEN 0
    ELSE (IF n \in OpenSells(rows, symbol) THEN rows[n].qty ELSE 0)
         + OpenSellQty(rows, n - 1, symbol)

\* several SELL orders wait on the symbol and together exceed a holding that is not
\* negative
SellsExceedHolding(symbol) ==
    /\ Cardinality(OpenSells(orders, symbol)) >= 2
    /\ \A r \in positions : r.qty >= 0
    /\ \A a \in accounts :
          OpenSellQty(orders, Len(orders), symbol) > HeldQty(positions, a.id, symbol)

NewlyFilled(old, new) ==
    {i \in 1 .. Len(old) : old[i].status = "OPEN" /\ new[i].status = "FILLED"}

\* C21: in a sweep over several OPEN SELL orders on one symbol whose combined quantity
\* exceeds the holding, in every order of evaluation: the position is not negative
\* afterwards, the SELLs that fill take exactly their own quantities off the position
\* and never more than was held, and a SELL that stays OPEN has no trade and no ledger
\* entry.
C21_SweepSellsWithinHolding ==
    [][(IsSweep /\ SellsExceedHolding("AAPL")) =>
          /\ \A r \in positions' : r.qty >= 0
          /\ \A a \in accounts :
                /\ HeldQty(positions', a.id, "AAPL")
                      = HeldQty(positions, a.id, "AAPL")
                        - SweepSoldQty(orders, orders', Len(orders), "AAPL")
                /\ SweepSoldQty(orders, orders', Len(orders), "AAPL")
                      <= HeldQty(positions, a.id, "AAPL")
          /\ \A i \in 1 .. Len(orders) :
                orders'[i].status = "OPEN" =>
                    (orders'[i] = orders[i] /\ TradesOfOrder(trades', i) = {})
          /\ Len(trades') = Len(trades) + Cardinality(NewlyFilled(orders, orders'))
          /\ Len(ledger') = Len(ledger) + Cardinality(NewlyFilled(orders, orders'))]_vars

\* the request is well-formed: a positive quantity, and a positive limit on a LIMIT order
WellFormedOption(qty, order_type, limit_price) ==
    /\ qty > 0
    /\ order_type = "LIMIT" => (limit_price # None /\ limit_price > 0)

\* the order is fillable at the quote q: the contract is quoted at a positive mid (or
\* last), and a LIMIT order is marketable
FillableOption(side, order_type, limit_price, q) ==
    LET mid == IF q[1] > 0 /\ q[2] > 0 THEN (q[1] + q[2]) \div 2 ELSE q[3]
    IN  /\ q # NotInChain
        /\ mid > 0
        /\ order_type = "LIMIT" => IF side = "BUY" THEN mid <= limit_price ELSE mid >= limit_price

\* C22: funds are never checked: a well-formed, fillable BUY fills whatever the cash
\* balance and takes its notional off it, below zero if need be; the only rejection of
\* a well-formed, fillable order is that of a SELL of more than is held.
C22_NoFundsCheck ==
    [][\A a \in DefaultAccountRows, sym \in Symbols, side \in Sides, qty \in Qtys,
          form \in OptionForms, q \in OptionQuotes :
          (/\ WellFormedOption(qty, form[1], form[2])
           /\ FillableOption(side, form[1], form[2], q)
           /\ place_option_order(a.id, Contract(sym), side, qty, form[1], form[2], q))
          => /\ last' \in {"ok", "PositionViolation"}
             /\ side = "BUY" =>
                   /\ last' = "ok"
                   /\ returned' = returned \cup {Len(option_orders) + 1}
                   /\ SumAmounts(ledger', a.id) =
                         SumAmounts(ledger, a.id)
                         - option_orders'[Len(option_orders')].avg_fill_price * qty * Multiplier
             /\ last' = "PositionViolation" =>
                   (side = "SELL" /\ HeldOptionQty(a.id, OptKey(Contract(sym))) < qty)]_vars

\* a BUY has just filled and the cash balance is negative
C22_Witness ==
    /\ last = "ok"
    /\ Len(option_orders) \in returned
    /\ option_orders[Len(option_orders)].side = "BUY"
    /\ \E a \in accounts : get_cash_balance(a.id) < 0

\* what one account can see: its cash, and its rows of every table (orders and trades
\* with their ids)
LedgerOf(led, id) == SelectSeq(led, LAMBDA e : e.account_id = id)
OrdersOf(ords, id) == {<<i, ords[i]>> : i \in {k \in 1 .. Len(ords) : ords[k].account_id = id}}
TradesOf(trs, ords, id) ==
    {<<i, trs[i]>> : i \in {k \in 1 .. Len(trs) : /\ trs[k].order_id \in 1 .. Len(ords)
                                                  /\ ords[trs[k].order_id].account_id = id}}
PositionsOf(rows, id) == {r \in rows : r.account_id = id}

AccountUntouched(id) ==
    /\ SumAmounts(ledger', id) = SumAmounts(ledger, id)
    /\ LedgerOf(ledger', id) = LedgerOf(ledger, id)
    /\ OrdersOf(orders', id) = OrdersOf(orders, id)
    /\ OrdersOf(option_orders', id) = OrdersOf(option_orders, id)
    /\ TradesOf(trades', orders', id) = TradesOf(trades, orders, id)
    /\ TradesOf(option_trades', option_orders', id) = TradesOf(option_trades, option_orders, id)
    /\ PositionsOf(positions', id) = PositionsOf(positions, id)
    /\ PositionsOf(option_positions', id) = PositionsOf(option_positions, id)

\* C23: an order placed for one account, whether it fills, fails half-way or is
\* rejected, leaves every other account's cash balance, ledger entries, orders,
\* trades and positions as they were.
C23_OtherAccountsUntouched ==
    [][\A a \in accounts :
          (\/ \E sym \in Symbols, side \in Sides, qty \in AccountQtys, q \in AccountOptionQuotes :
                  place_option_order(a.id, Contract(sym), side, qty, "MARKET", None, q)
           \/ \E side \in Sides, qty \in AccountQtys, P \in AccountEquityQuotes :
                  place_order(a.id, "AAPL", side, qty, "MARKET", None, None, P))
          => \A b \in accounts \ {a} : AccountUntouched(b.id)]_vars

\* one account holds a contract, and the other account's SELL of that contract has just
\* failed on the position check, its order, trade and ledger entry written
C23_Witness ==
    /\ last = "PositionViolation"
    /\ option_orders # <<>>
    /\ \E a \in accounts, b \in accounts :
          /\ a # b
          /\ option_orders[Len(option_orders)].account_id = a.id
          /\ option_orders[Len(option_orders)].side = "SELL"
          /\ Len(LedgerOf(ledger, a.id)) > 1
          /\ \E r \in PositionsOf(option_positions, b.id) :
                r.key = option_orders[Len(option_orders)].key

\* the deposits of one account
DepositsOf(id) == SelectSeq(ledger, LAMBDA e : e.account_id = id /\ e.kind = "deposit")

\* C24: get_or_create_default_account is idempotent, interleaved calls included: there
\* is at most one account named default, and exactly one once a call has completed; it
\* has exactly one deposit, of the starting cash of the call that created it, which is
\* its cash balance; every completed call has returned the id of that account.
C24_GetOrCreateIdempotent ==
    /\ Cardinality(DefaultAccountRows) <= 1
    /\ \A a \in DefaultAccountRows :
          /\ Len(DepositsOf(a.id)) = 1
          /\ DepositsOf(a.id)[1].amount = a.starting_cash
          /\ get_cash_balance(a.id) = a.starting_cash
    /\ \A t \in Threads :
          acct[t].ret # NoReturn => acct[t].ret \in {a.id : a \in DefaultAccountRows}

====
